---- MODULE Spec2Model ----
(***************************************************************************)
(* Model of dtf (down-the-foxhole): the incremental update cycle of        *)
(* Collector (managers.py), the playlist writers (functions.py) and the    *)
(* command loop (cli.py).                                                  *)
(*                                                                         *)
(* Time is counted in days.  A video is a record                           *)
(*   [videoId, channelId, publishedAt, videoPublishedAt]                   *)
(* standing for the playlistItem dict of the API: snippet.resourceId       *)
(* .videoId, snippet.videoOwnerChannelId, snippet.publishedAt and          *)
(* contentDetails.videoPublishedAt.                                        *)
(***************************************************************************)
EXTENDS Integers, Sequences, FiniteSets, TLC

\* ---------------------------------------------------------------- bounds
NumChannels == 6        \* channels 1..NumChannels; the last one has no record at first
MaxRuns == 2            \* command invocations (processes) in one behaviour
MaxFail == 1            \* per-item insert failures in one behaviour
Day0 == 200             \* the day of the first invocation
CreatedAt == 190        \* the day the records present at first were created
ShortGap == 3           \* days between two invocations: inside the cooldown
LongGap == 8            \* days between two invocations: outside the cooldown
MaxNow == 208           \* the last day an invocation may start
SectionMax == 2         \* the configured size limit of the active-playlists section

\* ------------------------------------------------------ program constants
None == -1                      \* Python's None, for an absent datetime or id
CHANNEL_ID == 0                 \* settings.CHANNEL_ID: the curating channel itself
MAX_RETRIES == 8
BASE_SLEEP_SECONDS == 10
MAX_SLEEP_SECONDS == 5400
DEFAULT_UPDATE_DAYS == 90
COOLDOWN_DAYS == 7
items_per_page == 5
\* a deployment setting (50 by the comment at managers.py:215), scaled to the
\* number of channels of the model
CHANNELSECTION_UPDATE_MAX_PLAYLISTS == SectionMax

Channels == 1..NumChannels
InitChannels == 1..(NumChannels - 1)
NewChannel == NumChannels
\* a channel of settings.IGNORE_CHANNEL_IDS: it uploads, and has no record
IgnoredChannel == NumChannels + 1
Uploaders == Channels \cup {IgnoredChannel}

\* ------------------------------------------------------------- sequences
Range(s) == {s[i] : i \in DOMAIN s}

RECURSIVE Pow(_, _)
Pow(b, e) == IF e = 0 THEN 1 ELSE b * Pow(b, e - 1)

\* --------------------------------------------------------------- upstream
Video(id, c, t, tp) ==
    [videoId |-> id, channelId |-> c, publishedAt |-> t, videoPublishedAt |-> tp]

\* The uploads of every channel that pass the title, duration and block
\* filters.  Channel 1 is the spec's scenario channel; channel 3 has been
\* silent for longer than the update window; channel 4 uploads a second
\* video that went public later than it was uploaded.
Catalog(c) ==
    CASE c = 1 -> {Video(11, 1, 100, 100), Video(12, 1, 150, 150), Video(13, 1, 200, 200)}
      [] c = 2 -> {Video(21, 2, 150, 150)}
      [] c = 3 -> {Video(31, 3, 50, 50)}
      [] c = 4 -> {Video(41, 4, 120, 120), Video(42, 4, 180, 185)}
      [] OTHER -> {Video(10 * c + 1, c, 100 + 5 * c, 100 + 5 * c)}

AllVideos == UNION {Catalog(c) : c \in Channels}

\* the videos listed upstream when the model starts
InitListed(c) ==
    CASE c = 1 -> {Video(11, 1, 100, 100)}
      [] c = 4 -> {Video(41, 4, 120, 120)}
      [] OTHER -> Catalog(c)

get_publish_date(item) == item.publishedAt

\* the listing sorted the other way round, newest first
RECURSIVE SortByPublishDateReversed(_)
SortByPublishDateReversed(S) ==
    IF S = {} THEN <<>>
    ELSE LET first == CHOOSE v \in S :
                        \A w \in S : get_publish_date(v) > get_publish_date(w)
                                     \/ (get_publish_date(v) = get_publish_date(w)
                                         /\ v.videoId >= w.videoId)
         IN  <<first>> \o SortByPublishDateReversed(S \ {first})

\* sorted(filtered_target_videos, key=get_publish_date)
RECURSIVE SortByPublishDate(_)
SortByPublishDate(S) ==
    IF S = {} THEN <<>>
    ELSE LET first == CHOOSE v \in S :
                        \A w \in S : get_publish_date(v) < get_publish_date(w)
                                     \/ (get_publish_date(v) = get_publish_date(w)
                                         /\ v.videoId <= w.videoId)
         IN  <<first>> \o SortByPublishDate(S \ {first})

\* get_channel_videos(channel_id)[2]: the channel's qualifying uploads, sorted
get_channel_videos(listed, c) ==
    SortByPublishDate({v \in listed : v.channelId = c})

\* ------------------------------------------------------------ the record
\* sha1(json.dumps(videos, sort_keys=True)): a digest folded over the list
RECURSIVE get_videos_hash(_)
get_videos_hash(videos) ==
    IF videos = <<>> THEN 7
    ELSE LET v == videos[Len(videos)]
         IN  (31 * get_videos_hash(SubSeq(videos, 1, Len(videos) - 1))
              + 1000 * v.videoId + v.publishedAt + v.videoPublishedAt) % 65521

ChannelTitle(c) == 1000 + c

ChannelInfo(c, pl, hash, videos, updated) ==
    [channel_id |-> c, channel_title |-> ChannelTitle(c), playlist_id |-> pl,
     last_updated_datetime |-> updated, videos_sha1hash |-> hash, videos |-> videos]

\* Collector._get_latest_videopublishedat: the loop over channel_info.videos
RECURSIVE LatestLoop(_, _)
LatestLoop(videos, latest) ==
    IF videos = <<>> THEN latest
    ELSE LET videopublishedat == Head(videos).videoPublishedAt
             next == IF videopublishedat = None THEN latest
                     ELSE IF latest = None THEN videopublishedat
                     ELSE IF videopublishedat > latest THEN videopublishedat
                     ELSE latest
         IN  LatestLoop(Tail(videos), next)

\* the watermark taken from the first video of the record only
LatestOfFirstVideo(channel_info) ==
    IF channel_info.videos = <<>> THEN None
    ELSE LatestLoop(<<Head(channel_info.videos)>>, None)

_get_latest_videopublishedat(channel_info) == LatestLoop(channel_info.videos, None)

\* Collector._get_channel_new_videos: the loop over the fetched listing
RECURSIVE NewVideosLoop(_, _, _, _)
NewVideosLoop(videos, latest_videopublishedat, existing_video_ids, new_videos) ==
    IF videos = <<>> THEN new_videos
    ELSE LET video == Head(videos)
             next == IF video.publishedAt > latest_videopublishedat
                     THEN IF video.videoId \notin existing_video_ids
                          THEN Append(new_videos, video)
                          ELSE new_videos
                     ELSE new_videos
         IN  NewVideosLoop(Tail(videos), latest_videopublishedat, existing_video_ids, next)

\* the filter left out: every fetched video counts as new
NewVideosUnfiltered(latest_videopublishedat, channel_info_videos, listing) == listing

\* the watermark test made non-strict, the id test left out
NewVideosFromWatermark(latest_videopublishedat, channel_info_videos, listing) ==
    LET Keep(video) == video.publishedAt >= latest_videopublishedat
    IN  SelectSeq(listing, Keep)

\* the watermark test left out: every fetched video with an unknown id is new
NewVideosByIdOnly(latest_videopublishedat, channel_info_videos, listing) ==
    LET Keep(video) ==
            video.videoId \notin {channel_info_videos[i].videoId : i \in DOMAIN channel_info_videos}
    IN  SelectSeq(listing, Keep)

_get_channel_new_videos(latest_videopublishedat, channel_info_videos, listing) ==
    NewVideosLoop(listing, latest_videopublishedat,
                  {channel_info_videos[i].videoId : i \in DOMAIN channel_info_videos},
                  <<>>)

\* ------------------------------------------------------------- selection
\* An entry of channels_to_check: the tuple (latest_videopublishedat, channel_info);
\* the ChannelInfo object itself is data[channel_id].
Entry(latest, c) == [latest |-> latest, channel_id |-> c]

\* sorted(results, reverse=True) on (datetime, ChannelInfo) tuples raises
\* TypeError when two tuples must be ordered by their second component
\* (equal first components: ChannelInfo has no <), or None meets a datetime.
SortRaises(results) ==
    \E e1, e2 \in results :
        /\ e1 # e2
        /\ (e1.latest = e2.latest \/ e1.latest = None \/ e2.latest = None)

RECURSIVE SortedReverse(_)
SortedReverse(results) ==
    IF results = {} THEN <<>>
    ELSE LET first == CHOOSE e \in results : \A f \in results : e.latest >= f.latest
         IN  <<first>> \o SortedReverse(results \ {first})

\* Collector._get_channelinfo_sortedby_videopublishedat: both branches of the
\* gte_datetime test append the entry.
SortedByVideoPublishedAtResults(records, gte_datetime) ==
    {Entry(_get_latest_videopublishedat(records[c]), c) : c \in
        {d \in DOMAIN records :
            LET latest_videopublishedat == _get_latest_videopublishedat(records[d])
            IN  /\ latest_videopublishedat # None
                /\ IF gte_datetime # None /\ latest_videopublishedat >= gte_datetime
                   THEN TRUE
                   ELSE TRUE}}

\* Collector._get_channelinfo_by_channelids: load_previous(channel_ids) skips
\* the ids with no cache file
ByChannelIdsResults(records, channel_ids) ==
    {Entry(_get_latest_videopublishedat(records[c]), c) :
        c \in (DOMAIN records) \cap channel_ids}

\* get_channelid_from_playlist: the owner of the playlist's first item; None
\* for a playlist that is not found (404) or has no item
get_channelid_from_playlist(playlists, playlist_id) ==
    IF playlist_id \notin DOMAIN playlists THEN None
    ELSE IF playlists[playlist_id] = <<>> THEN None
    ELSE playlists[playlist_id][1].channelId

\* Collector._get_active_playlists_section_info: the ids read (from the cache
\* when it is not empty, else from the section)
SectionPlaylistIds(cached, external) == IF cached = <<>> THEN external ELSE cached

ValidOwner(playlists, playlist_id) ==
    LET channel_id == get_channelid_from_playlist(playlists, playlist_id)
    IN  channel_id # None /\ channel_id # CHANNEL_ID

\* assert len(channel_info_results) == 1 fails for an owner with no record
SectionInfoRaises(ids, playlists, records) ==
    \E i \in DOMAIN ids :
        /\ ValidOwner(playlists, ids[i])
        /\ get_channelid_from_playlist(playlists, ids[i]) \notin DOMAIN records

RECURSIVE SectionInfoLoop(_, _, _)
SectionInfoLoop(ids, playlists, records) ==
    IF ids = <<>> THEN <<>>
    ELSE LET playlist_id == Head(ids)
             channel_id == get_channelid_from_playlist(playlists, playlist_id)
             rest == SectionInfoLoop(Tail(ids), playlists, records)
         IN  IF ValidOwner(playlists, playlist_id)
             THEN <<[playlist_id |-> playlist_id,
                     latest |-> _get_latest_videopublishedat(records[channel_id]),
                     channel_id |-> channel_id]>> \o rest
             ELSE rest

_get_active_playlists_section_info(cached, external, playlists, records) ==
    SectionInfoLoop(SectionPlaylistIds(cached, external), playlists, records)

\* Collector._get_existing_channels_to_check
_get_existing_channels_to_check(cached, external, playlists, records) ==
    LET info == _get_active_playlists_section_info(cached, external, playlists, records)
    IN  [i \in DOMAIN info |-> Entry(info[i].latest, info[i].channel_id)]

SelectSeq2(s, ids) ==
    LET Keep(e) == e.channel_id \notin ids IN SelectSeq(s, Keep)

\* Collector.update, lines 260-276: the worklist
SelectionRaises(channel_ids, records, external, playlists, gte_datetime) ==
    IF channel_ids # {}
    THEN SortRaises(ByChannelIdsResults(records, channel_ids))
    ELSE \/ SortRaises(SortedByVideoPublishedAtResults(records, gte_datetime))
         \/ SectionInfoRaises(external, playlists, records)

\* the channels of the active section not put in front
SelectionSortedOnly(channel_ids, records, external, playlists, gte_datetime) ==
    IF channel_ids # {}
    THEN SortedReverse(ByChannelIdsResults(records, channel_ids))
    ELSE SortedReverse(SortedByVideoPublishedAtResults(records, gte_datetime))

Selection(channel_ids, records, external, playlists, gte_datetime) ==
    IF channel_ids # {}
    THEN SortedReverse(ByChannelIdsResults(records, channel_ids))
    ELSE LET sorted == SortedReverse(SortedByVideoPublishedAtResults(records, gte_datetime))
             existing == _get_existing_channels_to_check(<<>>, external, playlists, records)
             existing_ids == {existing[i].channel_id : i \in DOMAIN existing}
         IN  existing \o SelectSeq2(sorted, existing_ids)

\* functions.window: islice the first n, yield them if there are n, then slide
RECURSIVE WindowSlide(_, _)
WindowSlide(result, rest) ==
    IF rest = <<>> THEN <<>>
    ELSE LET next == Tail(result) \o <<Head(rest)>>
         IN  <<next>> \o WindowSlide(next, Tail(rest))

window(seq, n) ==
    LET k == IF Len(seq) < n THEN Len(seq) ELSE n
        result == SubSeq(seq, 1, k)
        rest == SubSeq(seq, k + 1, Len(seq))
    IN  (IF Len(result) = n THEN <<result>> ELSE <<>>) \o WindowSlide(result, rest)


\* the members of the section forgotten: only the new ids are kept
KeepActiveDropsMembers(info, playlist_ids_to_add, days_ago) == playlist_ids_to_add

\* --------------------------------------------------------------- curator
\* Collector.update_active_journeys_section, cold cache: keep the members
\* still active
RECURSIVE KeepActiveLoop(_, _, _)
KeepActiveLoop(info, playlist_ids_to_add, days_ago) ==
    IF info = <<>> THEN playlist_ids_to_add
    ELSE LET e == Head(info)
             next == IF e.playlist_id \notin Range(playlist_ids_to_add)
                     THEN IF e.latest >= days_ago
                          THEN Append(playlist_ids_to_add, e.playlist_id)
                          ELSE playlist_ids_to_add
                     ELSE playlist_ids_to_add
         IN  KeepActiveLoop(Tail(info), next, days_ago)

\* the ids handed to _update_active_playlists_collection, as a set
PlaylistIdsToAdd(playlist_ids_to_add, cached, external, playlists, records, days_ago) ==
    IF cached = <<>>
    THEN Range(KeepActiveLoop(
             _get_active_playlists_section_info(cached, external, playlists, records),
             playlist_ids_to_add, days_ago))
    ELSE Range(playlist_ids_to_add \o cached)

\* Collector._update_active_playlists_collection: (latest, playlist_id) tuples
OrderedPlaylists(playlists_ids, records) ==
    {[latest |-> _get_latest_videopublishedat(records[c]),
      playlist_id |-> records[c].playlist_id] :
        c \in {d \in DOMAIN records : records[d].playlist_id \in playlists_ids}}

RECURSIVE SortedPlaylistsReverse(_)
SortedPlaylistsReverse(ordered) ==
    IF ordered = {} THEN <<>>
    ELSE LET first == CHOOSE e \in ordered : \A f \in ordered :
                          \/ e.latest > f.latest
                          \/ (e.latest = f.latest /\ e.playlist_id >= f.playlist_id)
         IN  <<first.playlist_id>> \o SortedPlaylistsReverse(ordered \ {first})

\* the slice left out
TruncateNothing(s, n) == s

\* ordered_playlist_ids[: n]
Truncate(s, n) == SubSeq(s, 1, IF Len(s) < n THEN Len(s) ELSE n)

_update_active_playlists_collection(playlists_ids, records) ==
    Truncate(SortedPlaylistsReverse(OrderedPlaylists(playlists_ids, records)),
             CHANNELSECTION_UPDATE_MAX_PLAYLISTS)

\* what update_active_journeys_section writes to the section
update_active_journeys_section(playlist_ids_to_add, cached, external, playlists, records, today) ==
    _update_active_playlists_collection(
        PlaylistIdsToAdd(playlist_ids_to_add, cached, external, playlists, records,
                         today - DEFAULT_UPDATE_DAYS),
        records)

\* the exceptions of the curator: the assert of the section info, None.replace
\* on a member with no watermark (cold cache), None against a datetime in sorted
CurateRaises(playlist_ids_to_add, cached, external, playlists, records, today) ==
    IF cached = <<>> /\ SectionInfoRaises(external, playlists, records) THEN TRUE
    ELSE \/ /\ cached = <<>>
            /\ LET info == _get_active_playlists_section_info(cached, external, playlists,
                                                             records)
               IN  \E i \in DOMAIN info :
                      /\ info[i].playlist_id \notin Range(playlist_ids_to_add)
                      /\ info[i].latest = None
         \/ LET ordered == OrderedPlaylists(
                               PlaylistIdsToAdd(playlist_ids_to_add, cached, external,
                                                playlists, records,
                                                today - DEFAULT_UPDATE_DAYS),
                               records)
            IN  \E e, f \in ordered : e.latest = None /\ f.latest # None

\* ------------------------------------------------------- playlist writers
\* functions.update_channel_playlist and the insert loop of
\* create_channel_playlist: ok[i] tells whether the insert of videos[i] succeeds
\* the loop given up at the first failed insert
RECURSIVE InsertLoopStopsAtFailure(_, _, _)
InsertLoopStopsAtFailure(videos, ok, added) ==
    IF videos = <<>> THEN added
    ELSE IF Head(ok)
         THEN InsertLoopStopsAtFailure(Tail(videos), Tail(ok), Append(added, Head(videos)))
         ELSE added

RECURSIVE InsertLoop(_, _, _)
InsertLoop(videos, ok, added) ==
    IF videos = <<>> THEN added
    ELSE InsertLoop(Tail(videos), Tail(ok),
                    IF Head(ok) THEN Append(added, Head(videos)) ELSE added)

update_channel_playlist(videos, ok) == InsertLoop(videos, ok, <<>>)

\* the request.execute() calls of the insert loop, by video id: the except
\* branch logs and goes on with the next video
RECURSIVE InsertRequests(_, _, _)
InsertRequests(videos, ok, requests) ==
    IF videos = <<>> THEN requests
    ELSE InsertRequests(Tail(videos), Tail(ok), Append(requests, Head(videos).videoId))

Failures(ok) == Cardinality({i \in DOMAIN ok : ~ok[i]})

Outcomes(videos, budget) ==
    {ok \in [DOMAIN videos -> BOOLEAN] : Failures(ok) <= budget}

\* the quota error retried like a rate limit
CreateFailureRetriesQuota(tries, response) ==
    IF tries <= MAX_RETRIES
       /\ response \in {"429 RATE_LIMIT_EXCEEDED", "403 quotaExceeded"} THEN "retry"
    ELSE IF tries > MAX_RETRIES THEN "raise"
    ELSE "raise"

\* create_channel_playlist, lines 297-324: what the except branch does with a
\* failed playlists().insert
CreateFailure(tries, response) ==
    IF tries <= MAX_RETRIES /\ response = "429 RATE_LIMIT_EXCEEDED" THEN "retry"
    ELSE IF tries > MAX_RETRIES THEN "raise"
    ELSE IF response = "403 quotaExceeded" THEN "sys.exit"
    ELSE "raise"

\* a linear backoff
SleepSecondsLinear(tries) == BASE_SLEEP_SECONDS * tries

\* lines 309-313: BASE_SLEEP_SECONDS**retries, capped
SleepSeconds(tries) ==
    IF Pow(BASE_SLEEP_SECONDS, tries) > MAX_SLEEP_SECONDS
    THEN MAX_SLEEP_SECONDS
    ELSE Pow(BASE_SLEEP_SECONDS, tries)

FailedResponses == {"429 RATE_LIMIT_EXCEEDED", "403 quotaExceeded", "500 backendError"}

\* the HttpError of the failed playlistItems inserts of one loop
ItemResponses(ok) == IF Failures(ok) = 0 THEN {"none"} ELSE FailedResponses

\* the cooldown test left out
InCooldownNever(channel_info, one_week_ago) ==
    channel_info.last_updated_datetime # channel_info.last_updated_datetime

\* the comparison turned round
InCooldownReversed(channel_info, one_week_ago) ==
    /\ channel_info.last_updated_datetime # None
    /\ channel_info.last_updated_datetime <= one_week_ago

\* Collector.update, line 286: the record was updated in the last week
InCooldown(channel_info, one_week_ago) ==
    /\ channel_info.last_updated_datetime # None
    /\ channel_info.last_updated_datetime >= one_week_ago


\* ------------------------------------------------------------------ state
VARIABLES
    now,                    \* today
    listed,                 \* the qualifying videos the channels list upstream
    store,                  \* the cache files: channel_id -> ChannelInfo
    remote,                 \* the created playlists: playlist_id -> inserted videos
    section,                \* the external active-playlists section
    pc,                     \* where the running command is ("idle": no process)
    cmd,                    \* the command line of the running process
    exit_status,            \* how the last process ended
    data,                   \* the ChannelInfo objects the worklist refers to
    cache,                  \* Collector._active_section_playlistids_cache
    channels_to_check,      \* update: the worklist
    existing_channel_ids,   \* update: the channels of the active section
    pages,                  \* update: what window() yields
    page_idx,               \* update: the page being processed
    pos,                    \* update: the item of the page being processed
    updated_playlist_ids,   \* update: the playlists updated in this page
    update_now,             \* update: now, read when the run starts
    pending,                \* update: appended_videos, before the save
    todo,                   \* create: the channel ids not processed yet
    retries,                \* create_channel_playlist: retries
    runs,                   \* processes started so far
    fails,                  \* per-item insert failures so far
    consumed,               \* history: the channels the page loop visited, in order
    fetched,                \* history: get_channel_videos calls of this run, per channel
    writes,                 \* history: append calls, saves and section writes of this run,
                            \* and the channels appended to and saved, in order
    quiet,                  \* history: the update command that just ended, nothing since
    immediate,              \* history: this run repeats the command that just ended
    curated,                \* history: the curator calls of this run
    last_response,          \* history: the last failed playlists().insert of this process
    slept,                  \* history: seconds slept by create_channel_playlist
    inserted,               \* history: the last playlistItems insert loop of this process
    killed,                 \* the update a kill interrupted between append and save
    nv                      \* the inputs and result of the function checked alone

world == <<now, listed, store, remote, section>>
locals == <<data, cache, channels_to_check, existing_channel_ids, pages, page_idx, pos,
            updated_playlist_ids, update_now, pending, todo, retries>>
history == <<consumed, fetched, writes, immediate, curated, last_response, slept,
             inserted>>
vars == <<world, pc, cmd, exit_status, locals, runs, fails, history, quiet, killed, nv>>

NoCmd == [command |-> "none", days |-> 0, channel_ids |-> {}]
UpdateCmd(days, ids) == [command |-> "update", days |-> days, channel_ids |-> ids]
CreateCmd(ids) == [command |-> "create", days |-> 0, channel_ids |-> ids]

NoWrites == [append |-> 0, save |-> 0, section |-> 0, appended |-> <<>>, saved |-> <<>>]
NoInsert == [writer |-> "none", playlist_id |-> None, videos |-> <<>>, ok |-> <<>>,
             requests |-> <<>>, added |-> <<>>, response |-> "none"]
NoKill == [channel_id |-> None, videos |-> <<>>, new_videos |-> <<>>]
NvIdle == [watermark |-> None, videos |-> <<>>, listing |-> <<>>, result |-> <<>>,
           done |-> FALSE]

\* the section holds nothing, or the playlist of the silent channel, when the
\* model starts
InitSections == {<<>>, <<3>>}

\* update's --channel-ids and create's --channel-ids
UpdateArgs == {{}, {1}, Channels}
CreateArgs == {<<1, IgnoredChannel, NewChannel, 1>>}

\* The record process_channel wrote for channel c on day CreatedAt, every
\* insert having succeeded; its playlist got the id c.
InitRecord(c) ==
    LET videos == get_channel_videos(UNION {InitListed(d) : d \in Channels}, c)
    IN  ChannelInfo(c, c, get_videos_hash(videos), videos, CreatedAt)

FreshLocals ==
    /\ data = <<>>
    /\ cache = <<>>
    /\ channels_to_check = <<>>
    /\ existing_channel_ids = {}
    /\ pages = <<>>
    /\ page_idx = 0
    /\ pos = 0
    /\ updated_playlist_ids = <<>>
    /\ update_now = None
    /\ pending = <<>>
    /\ todo = <<>>
    /\ retries = 0

FreshHistory ==
    /\ consumed = <<>>
    /\ fetched = [c \in Channels |-> 0]
    /\ writes = NoWrites
    /\ immediate = FALSE
    /\ curated = <<>>
    /\ last_response = "none"
    /\ slept = 0
    /\ inserted = NoInsert

Init ==
    /\ now = Day0
    /\ listed = UNION {InitListed(c) : c \in Uploaders}
    /\ store = [c \in InitChannels |-> InitRecord(c)]
    /\ remote = [p \in InitChannels |-> InitRecord(p).videos]
    /\ section \in InitSections
    /\ pc = "idle"
    /\ cmd = NoCmd
    /\ exit_status = "none"
    /\ FreshLocals
    /\ runs = 0
    /\ fails = 0
    /\ FreshHistory
    /\ quiet = NoCmd
    /\ killed = NoKill
    /\ nv = NvIdle

\* the process ends: its memory is gone
EndProcess(status) ==
    /\ pc' = "ended"
    /\ cmd' = NoCmd
    /\ exit_status' = status
    /\ data' = <<>>
    /\ cache' = <<>>
    /\ channels_to_check' = <<>>
    /\ existing_channel_ids' = {}
    /\ pages' = <<>>
    /\ page_idx' = 0
    /\ pos' = 0
    /\ updated_playlist_ids' = <<>>
    /\ update_now' = None
    /\ pending' = <<>>
    /\ todo' = <<>>
    /\ retries' = 0

\* ------------------------------------------------------------ environment
Tick(d) ==
    /\ pc = "idle"
    /\ now + d <= MaxNow
    /\ now' = now + d
    /\ quiet' = NoCmd
    /\ UNCHANGED <<listed, store, remote, section, pc, cmd, exit_status, locals, runs,
                   fails, history, killed, nv>>

\* a channel uploads a qualifying video
Publish(v) ==
    /\ pc = "idle"
    /\ v \in AllVideos \ listed
    /\ v.publishedAt <= now
    /\ listed' = listed \cup {v}
    /\ quiet' = NoCmd
    /\ killed' = NoKill
    /\ UNCHANGED <<now, store, remote, section, pc, cmd, exit_status, locals, runs,
                   fails, history, nv>>

\* --------------------------------------------------------- cli.py: update
StartUpdate(days, ids) ==
    /\ pc = "idle"
    /\ runs < MaxRuns
    /\ runs' = runs + 1
    /\ pc' = "select"
    /\ cmd' = UpdateCmd(days, ids)
    /\ update_now' = now
    /\ immediate' = (quiet = UpdateCmd(days, ids))
    /\ quiet' = NoCmd
    /\ UNCHANGED <<world, exit_status, data, cache, channels_to_check,
                   existing_channel_ids, pages, page_idx, pos, updated_playlist_ids,
                   pending, todo, retries, fails, consumed, fetched, writes, curated,
                   last_response, slept, inserted, killed, nv>>

gte_datetime == update_now - cmd.days

\* Collector.update, lines 258-279: the worklist and its pages
Select ==
    /\ pc = "select"
    /\ ~SelectionRaises(cmd.channel_ids, store, section, remote, gte_datetime)
    /\ LET loaded == IF cmd.channel_ids # {} THEN (DOMAIN store) \cap cmd.channel_ids
                     ELSE DOMAIN store
           worklist == Selection(cmd.channel_ids, store, section, remote, gte_datetime)
           existing == _get_existing_channels_to_check(<<>>, section, remote, store)
       IN  /\ data' = [c \in loaded |-> store[c]]
           /\ cache' = IF cmd.channel_ids # {} THEN <<>> ELSE section
           /\ existing_channel_ids' =
                 IF cmd.channel_ids # {} THEN {}
                 ELSE {existing[i].channel_id : i \in DOMAIN existing}
           /\ channels_to_check' = worklist
           /\ pages' = window(worklist, items_per_page)
    /\ page_idx' = 1
    /\ pos' = 1
    /\ updated_playlist_ids' = <<>>
    /\ pc' = "page"
    /\ UNCHANGED <<world, cmd, exit_status, update_now, pending, todo, retries, runs,
                   fails, history, quiet, killed, nv>>

InPage == pc = "page" /\ page_idx \in DOMAIN pages /\ pos \in DOMAIN pages[page_idx]
PageEnd == pc = "page" /\ page_idx \in DOMAIN pages /\ pos \notin DOMAIN pages[page_idx]
Current == pages[page_idx][pos]
CurrentInfo == data[Current.channel_id]
one_week_ago == update_now - COOLDOWN_DAYS
CurrentNewVideos ==
    _get_channel_new_videos(Current.latest, CurrentInfo.videos,
                            get_channel_videos(listed, Current.channel_id))

\* videopublishedat > None raises TypeError in _get_channel_new_videos
NewVideosRaises ==
    Current.latest = None /\ get_channel_videos(listed, Current.channel_id) # <<>>

\* lines 286-290: the record was updated in the last week
SkipCooldown ==
    /\ InPage
    /\ InCooldown(CurrentInfo, one_week_ago)
    /\ consumed' = Append(consumed, Current.channel_id)
    /\ pos' = pos + 1
    /\ UNCHANGED <<world, pc, cmd, exit_status, data, cache, channels_to_check,
                   existing_channel_ids, pages, page_idx, updated_playlist_ids,
                   update_now, pending, todo, retries, runs, fails, fetched, writes,
                   immediate, curated, last_response, slept, inserted, quiet, killed, nv>>

\* lines 292-295, 314-315: no new video
NoNewVideos ==
    /\ InPage
    /\ ~InCooldown(CurrentInfo, one_week_ago)
    /\ ~NewVideosRaises
    /\ CurrentNewVideos = <<>>
    /\ consumed' = Append(consumed, Current.channel_id)
    /\ fetched' = [fetched EXCEPT ![Current.channel_id] = @ + 1]
    /\ pos' = pos + 1
    /\ UNCHANGED <<world, pc, cmd, exit_status, data, cache, channels_to_check,
                   existing_channel_ids, pages, page_idx, updated_playlist_ids,
                   update_now, pending, todo, retries, runs, fails, writes,
                   immediate, curated, last_response, slept, inserted, quiet, killed, nv>>

\* the cache file is written by the append as well
StoreWrittenOnAppend(records, channel_info, appended_videos) ==
    [records EXCEPT ![channel_info.channel_id].videos = @ \o appended_videos]

\* lines 296-297: append_videos_to_playlist and videos.extend change the
\* playlist and the object in memory; the cache file is written at line 311
StoreAfterAppend(records, channel_info, appended_videos) == records

\* lines 292-296: new videos, appended one by one to the playlist
AppendVideos(ok, response) ==
    /\ InPage
    /\ ~InCooldown(CurrentInfo, one_week_ago)
    /\ ~NewVideosRaises
    /\ CurrentNewVideos # <<>>
    /\ ok \in Outcomes(CurrentNewVideos, MaxFail - fails)
    /\ response \in ItemResponses(ok)
    /\ LET appended_videos == update_channel_playlist(CurrentNewVideos, ok)
       IN  /\ pending' = appended_videos
           /\ remote' = [remote EXCEPT ![CurrentInfo.playlist_id] = @ \o appended_videos]
           /\ store' = StoreAfterAppend(store, CurrentInfo, appended_videos)
           /\ inserted' = [writer |-> "update_channel_playlist",
                           playlist_id |-> CurrentInfo.playlist_id,
                           videos |-> CurrentNewVideos, ok |-> ok,
                           requests |-> InsertRequests(CurrentNewVideos, ok, <<>>),
                           added |-> appended_videos, response |-> response]
    /\ fails' = fails + Failures(ok)
    /\ consumed' = Append(consumed, Current.channel_id)
    /\ fetched' = [fetched EXCEPT ![Current.channel_id] = @ + 1]
    /\ writes' = [writes EXCEPT !.append = @ + 1,
                                !.appended = Append(@, Current.channel_id)]
    /\ pc' = "save"
    /\ UNCHANGED <<now, listed, section, cmd, exit_status, data, cache,
                   channels_to_check, existing_channel_ids, pages, page_idx, pos,
                   updated_playlist_ids, update_now, todo, retries, runs,
                   immediate, curated, last_response, slept, quiet, killed, nv>>

\* the hash of the record left as it was
UpdatedInfoKeepsHash(channel_info, appended_videos, today) ==
    [channel_info EXCEPT !.videos = channel_info.videos \o appended_videos,
                         !.last_updated_datetime = today]

\* the record stamped with the publish date of its latest video
UpdatedInfoStampsWatermark(channel_info, appended_videos, today) ==
    LET all_videos == channel_info.videos \o appended_videos
    IN  [channel_info EXCEPT !.videos = all_videos,
                             !.videos_sha1hash = get_videos_hash(all_videos),
                             !.last_updated_datetime = LatestLoop(all_videos, None)]

\* the record's videos replaced by the appended ones
UpdatedInfoReplacesVideos(channel_info, appended_videos, today) ==
    [channel_info EXCEPT !.videos = appended_videos,
                         !.videos_sha1hash = get_videos_hash(appended_videos),
                         !.last_updated_datetime = today]

\* the record given the uploads playlist id that get_channel_videos returns
UpdatedInfoUploadsPlaylist(channel_info, appended_videos, today) ==
    LET all_videos == channel_info.videos \o appended_videos
    IN  [channel_info EXCEPT !.videos = all_videos,
                             !.videos_sha1hash = get_videos_hash(all_videos),
                             !.last_updated_datetime = today,
                             !.playlist_id = 100 + channel_info.channel_id]

\* the record saved without its stamp
UpdatedInfoKeepsStamp(channel_info, appended_videos, today) ==
    LET all_videos == channel_info.videos \o appended_videos
    IN  [channel_info EXCEPT !.videos = all_videos,
                             !.videos_sha1hash = get_videos_hash(all_videos)]

\* lines 297-313: extend the record, hash, stamp, save, count the playlist
UpdatedInfo(channel_info, appended_videos, today) ==
    LET all_videos == channel_info.videos \o appended_videos
    IN  [channel_info EXCEPT !.videos = all_videos,
                             !.videos_sha1hash = get_videos_hash(all_videos),
                             !.last_updated_datetime = today]

\* Collector._set_channel_data
_set_channel_data(records, channel_info) ==
    [c \in (DOMAIN records) \cup {channel_info.channel_id} |->
        IF c = channel_info.channel_id THEN channel_info ELSE records[c]]

SaveItem ==
    /\ pc = "save"
    /\ LET channel_info == UpdatedInfo(CurrentInfo, pending, now)
       IN  /\ data' = _set_channel_data(data, channel_info)
           /\ store' = _set_channel_data(store, channel_info)
           /\ updated_playlist_ids' = Append(updated_playlist_ids, channel_info.playlist_id)
    /\ killed' = IF killed.channel_id = Current.channel_id THEN NoKill ELSE killed
    /\ inserted' = NoInsert
    /\ pending' = <<>>
    /\ writes' = [writes EXCEPT !.save = @ + 1,
                                !.saved = Append(@, Current.channel_id)]
    /\ pos' = pos + 1
    /\ pc' = "page"
    /\ UNCHANGED <<now, listed, remote, section, cmd, exit_status, cache,
                   channels_to_check, existing_channel_ids, pages, page_idx,
                   update_now, todo, retries, runs, fails, consumed, fetched,
                   immediate, curated, last_response, slept, quiet, nv>>

\* the process is killed after append_videos_to_playlist returned and before
\* _set_channel_data wrote the cache file (lines 296-311)
Terminate ==
    /\ pc = "save"
    /\ runs < MaxRuns
    /\ killed' = [channel_id |-> Current.channel_id,
                  videos |-> store[Current.channel_id].videos,
                  new_videos |-> CurrentNewVideos]
    /\ EndProcess("killed")
    /\ UNCHANGED <<world, runs, fails, history, quiet, nv>>

\* the curator left out after every page
EndPageSkipsCurator ==
    /\ PageEnd
    /\ page_idx' = page_idx + 1
    /\ pos' = 1
    /\ updated_playlist_ids' = <<>>
    /\ UNCHANGED <<world, pc, cmd, exit_status, data, cache, channels_to_check,
                   existing_channel_ids, pages, update_now,
                   pending, todo, retries, runs, fails, history, quiet, killed, nv>>

\* lines 322-323: no playlist updated in this page
EndPageNoUpdate ==
    /\ PageEnd
    /\ updated_playlist_ids = <<>>
    /\ page_idx' = page_idx + 1
    /\ pos' = 1
    /\ UNCHANGED <<world, pc, cmd, exit_status, data, cache, channels_to_check,
                   existing_channel_ids, pages, updated_playlist_ids, update_now,
                   pending, todo, retries, runs, fails, history, quiet, killed, nv>>

\* the members of the section, before a curator call, whose channel has been
\* silent for longer than the retention window and was not updated in the page
StaleMembers(playlist_ids_to_add, members, records, today) ==
    {p \in Range(members) \ Range(playlist_ids_to_add) :
        \E c \in DOMAIN records :
            /\ records[c].playlist_id = p
            /\ _get_latest_videopublishedat(records[c]) < today - DEFAULT_UPDATE_DAYS}

\* lines 317-320: update_active_journeys_section(updated_playlist_ids)
EndPageCurate ==
    /\ PageEnd
    /\ updated_playlist_ids # <<>>
    /\ ~CurateRaises(updated_playlist_ids, cache, section, remote, store, now)
    /\ LET update_playlist_ids ==
               update_active_journeys_section(updated_playlist_ids, cache, section,
                                              remote, store, now)
       IN  /\ section' = update_playlist_ids
           /\ cache' = update_playlist_ids
           /\ curated' = Append(curated,
                  [playlist_ids_to_add |-> updated_playlist_ids,
                   warm |-> cache # <<>>,
                   members |-> SectionPlaylistIds(cache, section),
                   stale |-> StaleMembers(updated_playlist_ids,
                                          SectionPlaylistIds(cache, section), store, now),
                   ordered |-> SortedPlaylistsReverse(OrderedPlaylists(
                                  PlaylistIdsToAdd(updated_playlist_ids, cache, section,
                                                   remote, store, now - DEFAULT_UPDATE_DAYS),
                                  store)),
                   written |-> update_playlist_ids])
    /\ writes' = [writes EXCEPT !.section = @ + 1]
    /\ updated_playlist_ids' = <<>>
    /\ page_idx' = page_idx + 1
    /\ pos' = 1
    /\ UNCHANGED <<now, listed, store, remote, pc, cmd, exit_status, data,
                   channels_to_check, existing_channel_ids, pages, update_now,
                   pending, todo, retries, runs, fails, consumed, fetched,
                   immediate, last_response, slept, inserted, quiet, killed, nv>>

\* the page loop is over
FinishUpdate ==
    /\ pc = "page"
    /\ page_idx \notin DOMAIN pages
    /\ pc' = "done"
    /\ UNCHANGED <<world, cmd, exit_status, locals, runs, fails, history, quiet, killed, nv>>

\* the command returns and the process exits with status 0
Exit ==
    /\ pc = "done"
    /\ quiet' = IF cmd.command = "update" THEN cmd ELSE NoCmd
    /\ EndProcess("ok")
    /\ UNCHANGED <<world, runs, fails, history, killed, nv>>

\* an exception nothing catches (cli.py has no try): the traceback, exit 1
Raising ==
    \/ /\ pc = "select"
       /\ SelectionRaises(cmd.channel_ids, store, section, remote, gte_datetime)
    \/ /\ InPage
       /\ ~InCooldown(CurrentInfo, one_week_ago)
       /\ NewVideosRaises
    \/ /\ PageEnd
       /\ updated_playlist_ids # <<>>
       /\ CurateRaises(updated_playlist_ids, cache, section, remote, store, now)

UncaughtException ==
    /\ Raising
    /\ EndProcess("uncaught")
    /\ UNCHANGED <<world, runs, fails, history, quiet, killed, nv>>


\* the process is gone: the next command starts a new one
Reap ==
    /\ pc = "ended"
    /\ pc' = "idle"
    /\ exit_status' = "none"
    /\ consumed' = <<>>
    /\ fetched' = [c \in Channels |-> 0]
    /\ writes' = NoWrites
    /\ immediate' = FALSE
    /\ curated' = <<>>
    /\ last_response' = "none"
    /\ slept' = 0
    /\ inserted' = NoInsert
    /\ UNCHANGED <<world, cmd, locals, runs, fails, quiet, killed, nv>>

\* --------------------------------------------------------- cli.py: create
\* settings.IGNORE_CHANNEL_IDS
IGNORE_CHANNEL_IDS == {IgnoredChannel}

StartCreate(ids) ==
    /\ pc = "idle"
    /\ runs < MaxRuns
    /\ runs' = runs + 1
    /\ pc' = "create"
    /\ cmd' = CreateCmd(Range(ids))
    /\ todo' = ids
    /\ quiet' = NoCmd
    /\ UNCHANGED <<world, exit_status, data, cache, channels_to_check,
                   existing_channel_ids, pages, page_idx, pos, updated_playlist_ids,
                   update_now, pending, retries, fails, history, killed, nv>>

\* Collector.process_channel, lines 381-394: nothing to create
ProcessSkip ==
    /\ pc = "create"
    /\ todo # <<>>
    /\ \/ Head(todo) \in IGNORE_CHANNEL_IDS
       \/ Head(todo) \in DOMAIN store
       \/ get_channel_videos(listed, Head(todo)) = <<>>
    /\ todo' = Tail(todo)
    /\ UNCHANGED <<world, pc, cmd, exit_status, data, cache, channels_to_check,
                   existing_channel_ids, pages, page_idx, pos, updated_playlist_ids,
                   update_now, pending, retries, runs, fails, history, quiet, killed, nv>>

\* the test for a record that exists left out: a playlist for every call
ProcessBeginAgain ==
    /\ pc = "create"
    /\ todo # <<>>
    /\ Head(todo) \notin IGNORE_CHANNEL_IDS
    /\ get_channel_videos(listed, Head(todo)) # <<>>
    /\ fetched' = [fetched EXCEPT ![Head(todo)] = @ + 1]
    /\ retries' = 0
    /\ pc' = "creating"
    /\ UNCHANGED <<world, cmd, exit_status, data, cache, channels_to_check,
                   existing_channel_ids, pages, page_idx, pos, updated_playlist_ids,
                   update_now, pending, todo, runs, fails, consumed, writes,
                   immediate, curated, last_response, slept, inserted, quiet, killed, nv>>

\* lines 389-397: the channel has videos and no record: create its playlist
ProcessBegin ==
    /\ pc = "create"
    /\ todo # <<>>
    /\ Head(todo) \notin IGNORE_CHANNEL_IDS
    /\ Head(todo) \notin DOMAIN store
    /\ get_channel_videos(listed, Head(todo)) # <<>>
    /\ fetched' = [fetched EXCEPT ![Head(todo)] = @ + 1]
    /\ retries' = 0
    /\ pc' = "creating"
    /\ UNCHANGED <<world, cmd, exit_status, data, cache, channels_to_check,
                   existing_channel_ids, pages, page_idx, pos, updated_playlist_ids,
                   update_now, pending, todo, runs, fails, consumed, writes,
                   immediate, curated, last_response, slept, inserted, quiet, killed, nv>>

\* create_channel_playlist, lines 292-296 and 326-352, then process_channel,
\* lines 398-415: the playlist is created, the videos are inserted one by
\* one, the record is saved
CreateSucceeds(ok, response) ==
    /\ pc = "creating"
    /\ response \in ItemResponses(ok)
    /\ LET channel_id == Head(todo)
           videos == get_channel_videos(listed, channel_id)
           created_playlist_id == Len(remote) + 1
           added_videos == InsertLoop(videos, ok, <<>>)
           channel_data == ChannelInfo(channel_id, created_playlist_id,
                                       get_videos_hash(added_videos), added_videos, now)
       IN  /\ ok \in Outcomes(videos, MaxFail - fails)
           /\ remote' = Append(remote, added_videos)
           /\ store' = _set_channel_data(store, channel_data)
           /\ fails' = fails + Failures(ok)
           /\ inserted' = [writer |-> "create_channel_playlist",
                           playlist_id |-> created_playlist_id,
                           videos |-> videos, ok |-> ok,
                           requests |-> InsertRequests(videos, ok, <<>>),
                           added |-> added_videos, response |-> response]
    /\ writes' = [writes EXCEPT !.save = @ + 1, !.saved = Append(@, Head(todo))]
    /\ todo' = Tail(todo)
    /\ retries' = 0
    /\ pc' = "create"
    /\ UNCHANGED <<now, listed, section, cmd, exit_status, data, cache,
                   channels_to_check, existing_channel_ids, pages, page_idx, pos,
                   updated_playlist_ids, update_now, pending, runs, consumed, fetched,
                   immediate, curated, last_response, slept, quiet, killed, nv>>

\* lines 297-315: a rate-limited insert is retried after a sleep
CreateRetries(response) ==
    /\ pc = "creating"
    /\ response \in FailedResponses
    /\ CreateFailure(retries, response) = "retry"
    /\ retries' = retries + 1
    /\ slept' = slept + SleepSeconds(retries + 1)
    /\ last_response' = response
    /\ UNCHANGED <<world, pc, cmd, exit_status, data, cache, channels_to_check,
                   existing_channel_ids, pages, page_idx, pos, updated_playlist_ids,
                   update_now, pending, todo, runs, fails, consumed, fetched, writes,
                   immediate, curated, inserted, quiet, killed, nv>>

\* lines 316-318, 323-324: the HttpError is raised again; nothing catches it
CreateRaises(response) ==
    /\ pc = "creating"
    /\ response \in FailedResponses
    /\ CreateFailure(retries, response) = "raise"
    /\ last_response' = response
    /\ EndProcess("uncaught")
    /\ UNCHANGED <<world, runs, fails, consumed, fetched, writes, immediate, curated,
                   slept, inserted, quiet, killed, nv>>

\* lines 319-322: sys.exit(1)
CreateExits(response) ==
    /\ pc = "creating"
    /\ response \in FailedResponses
    /\ CreateFailure(retries, response) = "sys.exit"
    /\ last_response' = response
    /\ EndProcess("sys.exit")
    /\ UNCHANGED <<world, runs, fails, consumed, fetched, writes, immediate, curated,
                   slept, inserted, quiet, killed, nv>>

\* the loop over args.channel_ids is over
FinishCreate ==
    /\ pc = "create"
    /\ todo = <<>>
    /\ pc' = "done"
    /\ UNCHANGED <<world, cmd, exit_status, locals, runs, fails, history, quiet, killed, nv>>

\* ---------------------------------------------------------- specification
Next ==
    \/ \E d \in {ShortGap, LongGap} : Tick(d)
    \/ \E v \in AllVideos : Publish(v)
    \/ \E ids \in UpdateArgs : StartUpdate(DEFAULT_UPDATE_DAYS, ids)
    \/ Select
    \/ SkipCooldown
    \/ NoNewVideos
    \/ \E ok \in [1..3 -> BOOLEAN] \cup [1..2 -> BOOLEAN] \cup [1..1 -> BOOLEAN] :
          \E response \in FailedResponses \cup {"none"} : AppendVideos(ok, response)
    \/ SaveItem
    \/ EndPageNoUpdate
    \/ EndPageCurate
    \/ FinishUpdate
    \/ Exit
    \/ UncaughtException
    \/ Reap
    \/ \E ids \in CreateArgs : StartCreate(ids)
    \/ ProcessSkip
    \/ ProcessBegin
    \/ \E ok \in [1..3 -> BOOLEAN] \cup [1..2 -> BOOLEAN] \cup [1..1 -> BOOLEAN] :
          \E response \in FailedResponses \cup {"none"} : CreateSucceeds(ok, response)
    \/ \E response \in FailedResponses : CreateRetries(response)
    \/ \E response \in FailedResponses : CreateRaises(response)
    \/ \E response \in FailedResponses : CreateExits(response)
    \/ FinishCreate

Spec == Init /\ [][Next]_vars

\* ------------------------------------------- update runs that may be killed
NextKill ==
    \/ \E d \in {ShortGap, LongGap} : Tick(d)
    \/ \E v \in AllVideos : Publish(v)
    \/ \E ids \in UpdateArgs : StartUpdate(DEFAULT_UPDATE_DAYS, ids)
    \/ Select
    \/ SkipCooldown
    \/ NoNewVideos
    \/ \E ok \in [1..3 -> BOOLEAN] \cup [1..2 -> BOOLEAN] \cup [1..1 -> BOOLEAN] :
          \E response \in FailedResponses \cup {"none"} : AppendVideos(ok, response)
    \/ SaveItem
    \/ Terminate
    \/ EndPageNoUpdate
    \/ EndPageCurate
    \/ FinishUpdate
    \/ Exit
    \/ Reap

SpecKill == Init /\ [][NextKill]_vars


\* ---------------------------------- update runs on a section edited by hand
\* The section is external: the owner of the channel can put any playlist in
\* it.  ForeignPlaylist exists upstream and holds the videos of a channel that
\* has no cache file; LostPlaylist does not exist (404).
ForeignPlaylist == NumChannels
LostPlaylist == NumChannels + 1
StaleSections == {<<LostPlaylist>>, <<ForeignPlaylist>>}

InitStale ==
    /\ now = Day0
    /\ listed = UNION {InitListed(c) : c \in Uploaders}
    /\ store = [c \in InitChannels |-> InitRecord(c)]
    /\ remote = [p \in 1..ForeignPlaylist |->
                    IF p \in InitChannels THEN InitRecord(p).videos
                    ELSE get_channel_videos(listed, NewChannel)]
    /\ section \in StaleSections
    /\ pc = "idle"
    /\ cmd = NoCmd
    /\ exit_status = "none"
    /\ FreshLocals
    /\ runs = 0
    /\ fails = 0
    /\ FreshHistory
    /\ quiet = NoCmd
    /\ killed = NoKill
    /\ nv = NvIdle

NextStale ==
    \/ \E d \in {ShortGap, LongGap} : Tick(d)
    \/ \E v \in AllVideos : Publish(v)
    \/ \E ids \in UpdateArgs : StartUpdate(DEFAULT_UPDATE_DAYS, ids)
    \/ Select
    \/ SkipCooldown
    \/ NoNewVideos
    \/ \E ok \in [1..3 -> BOOLEAN] \cup [1..2 -> BOOLEAN] \cup [1..1 -> BOOLEAN] :
          \E response \in FailedResponses \cup {"none"} : AppendVideos(ok, response)
    \/ SaveItem
    \/ EndPageNoUpdate
    \/ EndPageCurate
    \/ FinishUpdate
    \/ Exit
    \/ UncaughtException
    \/ Reap

SpecStale == InitStale /\ [][NextStale]_vars


\* ------------------------------------------- _get_channel_new_videos alone
NvMaxId == 3
NvTimes == {100, 150, 200}
NvWatermarks == {50} \cup NvTimes

\* listings and cached video lists: at most one video per id, by publish date
NvLists ==
    {SortByPublishDate(S) : S \in
        {T \in SUBSET {Video(id, 1, t, t) : id \in 1..NvMaxId, t \in NvTimes} :
            \A v, w \in T : v.videoId = w.videoId => v = w}}

InitNV ==
    /\ now = Day0
    /\ listed = UNION {InitListed(c) : c \in Uploaders}
    /\ store = [c \in InitChannels |-> InitRecord(c)]
    /\ remote = [p \in InitChannels |-> InitRecord(p).videos]
    /\ section = <<>>
    /\ pc = "idle"
    /\ cmd = NoCmd
    /\ exit_status = "none"
    /\ FreshLocals
    /\ runs = 0
    /\ fails = 0
    /\ FreshHistory
    /\ quiet = NoCmd
    /\ killed = NoKill
    /\ nv \in [watermark : NvWatermarks, videos : NvLists, listing : NvLists,
               result : {<<>>}, done : {FALSE}]

NewVideosCall ==
    /\ ~nv.done
    /\ nv' = [nv EXCEPT !.result = _get_channel_new_videos(nv.watermark, nv.videos,
                                                           nv.listing),
                        !.done = TRUE]
    /\ UNCHANGED <<world, pc, cmd, exit_status, locals, runs, fails, history, quiet, killed>>

NextNV == NewVideosCall

SpecNV == InitNV /\ [][NextNV]_vars

\* the program at rest: no process, the world as Init has it
AtRest ==
    /\ now = Day0
    /\ listed = UNION {InitListed(c) : c \in Uploaders}
    /\ store = [c \in InitChannels |-> InitRecord(c)]
    /\ remote = [p \in InitChannels |-> InitRecord(p).videos]
    /\ section = <<>>
    /\ pc = "idle"
    /\ cmd = NoCmd
    /\ exit_status = "none"
    /\ FreshLocals
    /\ runs = 0
    /\ fails = 0
    /\ FreshHistory
    /\ quiet = NoCmd
    /\ killed = NoKill

\* ------------------------------- _update_active_playlists_collection alone
CurateMaxId == 3

\* the cache files of CurateMaxId channels: a record has no video (its playlist
\* was created while every insert failed) or one video
CurateRecords ==
    {[c \in 1..CurateMaxId |->
         LET videos == IF t[c] = None THEN <<>>
                       ELSE <<Video(10 * c + 1, c, t[c], t[c])>>
         IN  ChannelInfo(c, c, get_videos_hash(videos), videos, CreatedAt)] :
        t \in [1..CurateMaxId -> {None, 100, 150}]}

InitCurate ==
    /\ AtRest
    /\ nv \in [records : CurateRecords,
               playlists_ids : (SUBSET (1..CurateMaxId)) \ {{}},
               result : {<<>>}, raised : {FALSE}, done : {FALSE}]

\* sorted(ordered_playlists, reverse=True) on (latest, playlist_id) tuples:
\* equal first components are settled by the playlist ids; None against a
\* datetime raises TypeError
OrderedPlaylistsRaises(ordered) ==
    \E e, f \in ordered : e.latest = None /\ f.latest # None

CollectionCall ==
    /\ ~nv.done
    /\ LET ordered == OrderedPlaylists(nv.playlists_ids, nv.records)
       IN  nv' = IF OrderedPlaylistsRaises(ordered)
                 THEN [nv EXCEPT !.raised = TRUE, !.done = TRUE]
                 ELSE [nv EXCEPT !.result =
                           _update_active_playlists_collection(nv.playlists_ids, nv.records),
                                 !.done = TRUE]
    /\ UNCHANGED <<world, pc, cmd, exit_status, locals, runs, fails, history, quiet, killed>>

NextCurate == CollectionCall

SpecCurate == InitCurate /\ [][NextCurate]_vars

\* ------------------------------------------------------ load_previous alone
LoadMaxId == 3

\* what the cache directory holds under a channel id: a file that parses to a
\* ChannelInfo, a file that does not, or no file
CacheFiles == [1..LoadMaxId -> {"record", "corrupt", "absent"}]

\* the files load_previous reads: those of the ids given that exist (lines
\* 50-54), or every file of the directory (line 61)
LoadTargets(files, channel_ids) ==
    IF channel_ids # {}
    THEN {c \in channel_ids : files[c] # "absent"}
    ELSE {c \in DOMAIN files : files[c] # "absent"}

\* json.loads and ChannelInfo(**raw) are in no try: a file that does not parse
\* raises out of load_previous
LoadRaises(files, channel_ids) ==
    \E c \in LoadTargets(files, channel_ids) : files[c] = "corrupt"

\* the channel ids of self._data after load_previous returned
load_previous(files, channel_ids) == LoadTargets(files, channel_ids)

InitLoad ==
    /\ AtRest
    /\ nv \in [files : CacheFiles, channel_ids : SUBSET (1..LoadMaxId),
               result : {{}}, raised : {FALSE}, done : {FALSE}]

LoadCall ==
    /\ ~nv.done
    /\ nv' = IF LoadRaises(nv.files, nv.channel_ids)
             THEN [nv EXCEPT !.raised = TRUE, !.done = TRUE]
             ELSE [nv EXCEPT !.result = load_previous(nv.files, nv.channel_ids),
                             !.done = TRUE]
    /\ UNCHANGED <<world, pc, cmd, exit_status, locals, runs, fails, history, quiet, killed>>

NextLoad == LoadCall

SpecLoad == InitLoad /\ [][NextLoad]_vars

\* ------------------------------------------------------------------ claims
VideoIds(videos) == {videos[i].videoId : i \in DOMAIN videos}

ScenarioV1 == Video(1, 1, 100, 100)
ScenarioV2 == Video(2, 1, 150, 150)
ScenarioV3 == Video(3, 1, 200, 200)
ScenarioInput ==
    /\ nv.watermark = 100
    /\ nv.videos = <<ScenarioV1>>
    /\ nv.listing = <<ScenarioV1, ScenarioV2, ScenarioV3>>

\* C1: new_videos(watermark, record) is exactly the videos of the listing
\* published strictly after the watermark whose id is not in record.videos, in
\* the listing's order; cached [v1(100)], watermark 100 and the listing
\* [v1(100), v2(150), v3(200)] give [v2, v3].
C1_NewVideosExact ==
    nv.done =>
        /\ LET Qualifies(video) == /\ video.publishedAt > nv.watermark
                                   /\ video.videoId \notin VideoIds(nv.videos)
           IN  nv.result = SelectSeq(nv.listing, Qualifies)
        /\ ScenarioInput => nv.result = <<ScenarioV2, ScenarioV3>>

C1_Witness == nv.done /\ ScenarioInput /\ nv.result = <<ScenarioV2, ScenarioV3>>

\* C2: after any sequence of update cycles no video id appears twice in the
\* videos list of any record.
C2_NoDuplicateVideoIds ==
    \A c \in DOMAIN store :
        \A i, j \in DOMAIN store[c].videos :
            i # j => store[c].videos[i].videoId # store[c].videos[j].videoId

Visits(c) == Cardinality({i \in DOMAIN consumed : consumed[i] = c})

\* a run over two pages in which a channel of both pages was updated while an
\* insert failed
C2_Witness ==
    /\ pc = "done"
    /\ Len(pages) >= 2
    /\ fails >= 1
    /\ \E c \in DOMAIN store :
          /\ Visits(c) >= 2
          /\ store[c].last_updated_datetime = now
          /\ Len(store[c].videos) >= 2

\* C3: an update cycle run again right after the same cycle ended, with
\* nothing published in between, appends nothing, saves no record and writes no
\* section.
C3_SecondRunWritesNothing == immediate => writes = NoWrites

\* the second run went through a page holding a channel the first run updated
C3_Witness ==
    /\ pc = "done"
    /\ immediate
    /\ \E c \in Range(consumed) : store[c].last_updated_datetime = now
    /\ \E c \in Channels : fetched[c] >= 1

\* C4: in the default selection a record outside the active collection is in
\* the worklist only if its watermark is not older than now - window_days.
C4_OnlyRecentSelected ==
    (pc = "page" /\ cmd.channel_ids = {}) =>
        \A i \in DOMAIN channels_to_check :
            channels_to_check[i].channel_id \notin existing_channel_ids =>
                /\ channels_to_check[i].latest # None
                /\ channels_to_check[i].latest >= update_now - cmd.days

\* C5: for a worklist of any length n >= 1 every entry is consumed by the
\* update cycle at least once during the run.
C5_EveryEntryConsumed ==
    (pc = "done" /\ cmd.command = "update") =>
        \A i \in DOMAIN channels_to_check :
            channels_to_check[i].channel_id \in Range(consumed)

\* C6: within one run the channels consumed are exactly the worklist in its
\* order, each entry visited once, and no channel is fetched twice.
C6_ConsumedOnceInOrder ==
    cmd.command = "update" =>
        /\ Len(consumed) <= Len(channels_to_check)
        /\ \A i \in DOMAIN consumed :
              i \in DOMAIN channels_to_check
              /\ consumed[i] = channels_to_check[i].channel_id
        /\ \A c \in Channels : fetched[c] <= 1

RecentlyUpdated(channel_info) ==
    /\ channel_info.last_updated_datetime # None
    /\ channel_info.last_updated_datetime >= update_now - 7

\* C7: a record last updated within the 7 days before the run is not merged
\* (no fetch, no append, no save); a record updated longer ago, or never, is
\* fetched for merging.
C7_CooldownEnforced ==
    [][InPage =>
        /\ RecentlyUpdated(CurrentInfo) =>
              /\ fetched' = fetched
              /\ store' = store
              /\ remote' = remote
              /\ writes' = writes
        /\ (~RecentlyUpdated(CurrentInfo) /\ pc' # "ended") =>
              fetched' = [fetched EXCEPT ![Current.channel_id] = @ + 1]]_vars

\* a run ShortGap days after an update: that record was skipped, an older one
\* fetched
C7_Witness ==
    /\ pc = "done"
    /\ cmd.command = "update"
    /\ \E c \in Range(consumed) :
          /\ data[c].last_updated_datetime = update_now - ShortGap
          /\ fetched[c] = 0
    /\ \E c \in Range(consumed) :
          /\ data[c].last_updated_datetime < update_now - 7
          /\ fetched[c] >= 1

\* C8: after curate(new_playlist_ids) a member that is not in new_playlist_ids
\* and whose channel watermark is older than the retention window is absent
\* from the written membership, read from the section or from the cache.
C8_StaleMemberDropped ==
    \A i \in DOMAIN curated : curated[i].stale \cap Range(curated[i].written) = {}

\* C9: last_updated_at of a record changes only in a cycle in which at least
\* one video was appended; if every insert fails the record is neither changed
\* nor saved.
C9_StampOnlyOnAppend ==
    [][\A c \in (DOMAIN store) \cap (DOMAIN store') :
          store'[c] # store[c] => Len(store'[c].videos) > Len(store[c].videos)]_vars

\* C10: a playlist-creation insert that fails with 403 quotaExceeded ends the
\* process at once, after any number of rate-limit retries: no further
\* attempt, no further channel.
C10_QuotaEndsProcess ==
    last_response = "403 quotaExceeded" =>
        /\ pc = "ended"
        /\ exit_status \in {"sys.exit", "uncaught"}

\* the quota error came after the rate-limit retries were used up
C10_Witness ==
    /\ last_response = "403 quotaExceeded"
    /\ pc = "ended"
    /\ slept > MAX_RETRIES * BASE_SLEEP_SECONDS

QuotaErrorRaised ==
    \/ last_response = "403 quotaExceeded"
    \/ inserted.response = "403 quotaExceeded"

\* C11: when an insert made for channel k of a run fails with the quota
\* error, the process ends at that step with the store as it was, and no
\* later step of the process fetches a channel, writes a playlist or saves a
\* record.
C11_QuotaStopsRun ==
    [][/\ (QuotaErrorRaised' /\ ~QuotaErrorRaised) => (pc' = "ended" /\ store' = store)
       /\ (QuotaErrorRaised /\ pc' # "idle") =>
             (fetched' = fetched /\ remote' = remote /\ store' = store)]_vars

\* C12: when the creation of one channel's playlist gives up after the
\* rate-limit retries are used up, the run goes on with the next channel of
\* the batch.
C12_RetriesExceededContinues ==
    [][(/\ pc = "creating"
        /\ pc' # "creating"
        /\ retries > MAX_RETRIES
        /\ last_response' = "429 RATE_LIMIT_EXCEEDED")
       => (pc' = "create" /\ todo' = Tail(todo))]_vars

\* C13: the k-th retry of a playlist creation sleeps min(base^k, ceiling)
\* seconds; two rate-limit failures followed by a success end with the record
\* of the created playlist after base + base^2 seconds of sleep.
C13_BackoffSleeps ==
    [][/\ retries' = retries + 1 =>
             slept' = slept + (IF Pow(BASE_SLEEP_SECONDS, retries') < MAX_SLEEP_SECONDS
                               THEN Pow(BASE_SLEEP_SECONDS, retries')
                               ELSE MAX_SLEEP_SECONDS)
       /\ (pc = "creating" /\ pc' = "create" /\ retries = 2) =>
             /\ slept' = BASE_SLEEP_SECONDS + BASE_SLEEP_SECONDS * BASE_SLEEP_SECONDS
             /\ Head(todo) \in DOMAIN store'
             /\ store'[Head(todo)].playlist_id \in (DOMAIN remote') \ (DOMAIN remote)]_vars

\* two rate-limit failures, then the playlist was created and recorded
C13_Witness ==
    /\ pc = "create"
    /\ slept = BASE_SLEEP_SECONDS + BASE_SLEEP_SECONDS * BASE_SLEEP_SECONDS
    /\ last_response = "429 RATE_LIMIT_EXCEEDED"
    /\ inserted.writer = "create_channel_playlist"
    /\ NewChannel \in DOMAIN store

\* C14: the creation loop re-attempts only after a 429 rate-limit failure and
\* makes at most MAX_RETRIES re-attempts for one creation call.
C14_AtMostMaxRetries ==
    [][retries' = retries + 1 =>
          /\ last_response' = "429 RATE_LIMIT_EXCEEDED"
          /\ retries' <= MAX_RETRIES]_vars

\* the videos of an insert loop whose insert succeeded, in input order
RECURSIVE Succeeded(_, _)
Succeeded(videos, ok) ==
    IF videos = <<>> THEN <<>>
    ELSE (IF ok[1] THEN <<videos[1]>> ELSE <<>>) \o Succeeded(Tail(videos), Tail(ok))

\* C15: an insert loop requests each given video once, in input order, and
\* returns exactly the videos whose insert succeeded; a failed insert, whatever
\* its error, leaves the process running and the later videos attempted.
C15_AppendLenient ==
    [][(inserted' # inserted /\ inserted'.writer # "none") =>
          LET call == inserted'
              before == IF call.playlist_id \in DOMAIN remote
                        THEN remote[call.playlist_id] ELSE <<>>
          IN  /\ call.requests = [i \in DOMAIN call.videos |-> call.videos[i].videoId]
              /\ call.added = Succeeded(call.videos, call.ok)
              /\ remote'[call.playlist_id] = before \o Succeeded(call.videos, call.ok)
              /\ pc' \notin {"ended", "idle"}
              /\ call.writer = "update_channel_playlist" =>
                    pending' = Succeeded(call.videos, call.ok)]_vars

\* the first insert of an append failed with the quota error, the second
\* succeeded
C15_Witness ==
    /\ pc = "save"
    /\ inserted.writer = "update_channel_playlist"
    /\ inserted.response = "403 quotaExceeded"
    /\ inserted.ok = <<FALSE, TRUE>>
    /\ pending = <<inserted.videos[2]>>

\* C16: every record in the store, written at creation or by an update cycle,
\* has videos_sha1hash equal to the hash of its videos list.
C16_HashConsistent ==
    \A c \in DOMAIN store : store[c].videos_sha1hash = get_videos_hash(store[c].videos)

\* a record saved by an update in which one insert failed and one succeeded,
\* and a record saved at creation
C16_Witness ==
    /\ fails >= 1
    /\ NewChannel \in DOMAIN store
    /\ \E c \in InitChannels :
          /\ store[c].last_updated_datetime > CreatedAt
          /\ Len(store[c].videos) = Len(InitRecord(c).videos) + 1

\* the channels that own a playlist of the section and have a record, in the
\* section's order
RECURSIVE ActiveChannelIds(_, _, _)
ActiveChannelIds(ids, playlists, records) ==
    IF ids = <<>> THEN <<>>
    ELSE LET owner == IF Head(ids) \in DOMAIN playlists /\ playlists[Head(ids)] # <<>>
                      THEN playlists[Head(ids)][1].channelId
                      ELSE None
         IN  (IF owner \in DOMAIN records THEN <<owner>> ELSE <<>>)
             \o ActiveChannelIds(Tail(ids), playlists, records)

\* the default selection has just been made
JustSelected == pc = "page" /\ page_idx = 1 /\ pos = 1 /\ cmd.channel_ids = {}

\* C17: in the default selection the channels of the active section that have
\* a record head the worklist in the section's order, whatever their
\* watermark, and no channel id is in the worklist twice.
C17_ActiveChannelsFirst ==
    JustSelected =>
        LET active == ActiveChannelIds(section, remote, store)
        IN  /\ Len(active) <= Len(channels_to_check)
            /\ \A i \in DOMAIN active : channels_to_check[i].channel_id = active[i]
            /\ \A i, j \in DOMAIN channels_to_check :
                  i # j => channels_to_check[i].channel_id # channels_to_check[j].channel_id

\* a section of two playlists, one of a channel silent for longer than the
\* window, and entries outside the section behind them
C17_Witness ==
    /\ JustSelected
    /\ Len(section) = 2
    /\ Len(channels_to_check) > 2
    /\ \E i \in 1..2 : channels_to_check[i].latest < update_now - cmd.days
    /\ channels_to_check[3].latest > channels_to_check[1].latest

\* C19: every list written to the section has at most the configured maximum
\* of entries, the first ones of the ordered list of candidates.
C19_SectionBounded ==
    \A i \in DOMAIN curated :
        /\ Len(curated[i].written) <= CHANNELSECTION_UPDATE_MAX_PLAYLISTS
        /\ Len(curated[i].written) <= Len(curated[i].ordered)
        /\ curated[i].written = SubSeq(curated[i].ordered, 1, Len(curated[i].written))
        /\ Len(curated[i].ordered) > Len(curated[i].written) =>
              Len(curated[i].written) = CHANNELSECTION_UPDATE_MAX_PLAYLISTS

\* more candidates than the maximum: the last one of the ordered list dropped
C19_Witness ==
    \E i \in DOMAIN curated :
        /\ Len(curated[i].ordered) > CHANNELSECTION_UPDATE_MAX_PLAYLISTS
        /\ Len(curated[i].written) = CHANNELSECTION_UPDATE_MAX_PLAYLISTS

\* C20: last_updated_datetime of a record never decreases, over any sequence
\* of runs.
C20_StampMonotone ==
    [][\A c \in (DOMAIN store) \cap (DOMAIN store') :
          store'[c].last_updated_datetime >= store[c].last_updated_datetime]_vars

\* a record stamped by an update of the first run is being updated again
\* LongGap days later
C20_Witness ==
    /\ pc = "save"
    /\ runs = 2
    /\ now = Day0 + LongGap
    /\ pending # <<>>
    /\ CurrentInfo.last_updated_datetime = Day0
    /\ store[Current.channel_id].last_updated_datetime = Day0

\* the next run is at the channel whose update was killed before its save
AtKilledChannel == InPage /\ killed.channel_id = Current.channel_id

\* C18: a process killed between the append and the save of a channel leaves
\* the stored record of that channel as it was loaded; the next run finds the
\* same record, is not held back by the cooldown, computes the same new videos
\* and, its inserts succeeding, saves the record the killed run would have
\* saved.
C18_KillLosesNothing ==
    [][/\ (pc = "save" /\ exit_status' = "killed") =>
             store'[Current.channel_id] = CurrentInfo
       /\ AtKilledChannel =>
             /\ CurrentInfo.videos = killed.videos
             /\ ~RecentlyUpdated(CurrentInfo)
             /\ CurrentNewVideos = killed.new_videos
       /\ (pc = "save" /\ pc' = "page" /\ killed.channel_id = Current.channel_id
           /\ pending = killed.new_videos) =>
             store'[Current.channel_id].videos = killed.videos \o killed.new_videos]_vars

\* the run after the kill has appended the same videos and saved the record
C18_Witness ==
    /\ pc = "page"
    /\ runs = 2
    /\ killed = NoKill
    /\ \E c \in Range(consumed) :
          /\ store[c].last_updated_datetime = now
          /\ Len(remote[store[c].playlist_id]) > Len(store[c].videos)
          /\ fails = 0

\* ---------------------------------------------------------------- C21
\* the channel the page loop is at lists no video that is both published after
\* the watermark of its entry and absent from its record
NothingNewListed ==
    \A v \in listed :
        v.channelId = Current.channel_id =>
            ~(/\ v.publishedAt > Current.latest
              /\ v.videoId \notin VideoIds(CurrentInfo.videos))

\* C21: when the update cycle finds no new video for a channel that is not in
\* its cooldown, the step leaves the record as it was (videos, hash and stamp,
\* in the cache file and in memory), writes nothing to the store, the playlists
\* or the section, and does not count the playlist as updated for the page.
C21_NoNewVideosLeavesRecord ==
    [][(/\ InPage
        /\ ~InCooldown(CurrentInfo, one_week_ago)
        /\ Current.latest # None
        /\ NothingNewListed)
       => (/\ pc' = "page"
           /\ pos' = pos + 1
           /\ store' = store
           /\ data' = data
           /\ remote' = remote
           /\ section' = section
           /\ writes' = writes
           /\ updated_playlist_ids' = updated_playlist_ids)]_vars

\* a channel was fetched, had nothing new, and its record is the one it had
C21_Witness ==
    /\ pc = "page"
    /\ consumed = <<3>>
    /\ fetched[3] = 1
    /\ writes = NoWrites
    /\ updated_playlist_ids = <<>>
    /\ store[3] = InitRecord(3)
    /\ data[3] = InitRecord(3)

\* ---------------------------------------------------------------- C22
IsPrefix(s, t) == Len(s) <= Len(t) /\ SubSeq(t, 1, Len(s)) = s

\* s can be had from t by leaving elements out
RECURSIVE IsSubSeq(_, _)
IsSubSeq(s, t) ==
    IF s = <<>> THEN TRUE
    ELSE IF t = <<>> THEN FALSE
    ELSE IF Head(s) = Head(t) THEN IsSubSeq(Tail(s), Tail(t))
    ELSE IsSubSeq(s, Tail(t))

\* C22: the videos list of a record is append-only: in every step the list a
\* cache file held is a prefix of the list it holds next, and the suffix a save
\* of the update cycle adds is exactly the list update_channel_playlist
\* returned, itself a subsequence of the new videos handed to it.
C22_VideosAppendOnly ==
    [][/\ \A c \in DOMAIN store :
              c \in DOMAIN store' /\ IsPrefix(store[c].videos, store'[c].videos)
       /\ (pc = "save" /\ pc' = "page") =>
              LET c == Current.channel_id
              IN  /\ store'[c].videos = store[c].videos \o inserted.added
                  /\ inserted.added = Succeeded(inserted.videos, inserted.ok)
                  /\ IsSubSeq(inserted.added, inserted.videos)
                  /\ inserted.videos = CurrentNewVideos]_vars

\* channel 1 was saved with one of its two new videos: the first insert failed
C22_Witness ==
    /\ pc = "page"
    /\ writes.save = 1
    /\ Len(store[1].videos) = 2
    /\ store[1].videos[1].videoId = 11
    /\ store[1].videos[2].videoId = 13

\* ---------------------------------------------------------------- C23
\* C23: the playlists counted for a page are exactly those of the records
\* saved in the page (the count starts empty, grows by the playlist of each
\* save, and changes at no other step); at the end of a page the curator is
\* called once, with exactly these ids, if there is one, and a page with none
\* causes no curator call and no write to the section; the curator is called
\* at no other step.
C23_CuratorOncePerUpdatedPage ==
    [][/\ (pc = "select" /\ pc' = "page") => updated_playlist_ids' = <<>>
       /\ (pc = "save" /\ pc' = "page") =>
              /\ writes'.save = writes.save + 1
              /\ updated_playlist_ids' =
                     Append(updated_playlist_ids, store'[Current.channel_id].playlist_id)
       /\ (InPage /\ pc' = "page") =>
              /\ writes'.save = writes.save
              /\ updated_playlist_ids' = updated_playlist_ids
       /\ (PageEnd /\ pc' = "page") =>
              /\ updated_playlist_ids' = <<>>
              /\ IF updated_playlist_ids # <<>>
                 THEN /\ Len(curated') = Len(curated) + 1
                      /\ curated'[Len(curated')].playlist_ids_to_add = updated_playlist_ids
                      /\ SubSeq(curated', 1, Len(curated)) = curated
                      /\ writes'.section = writes.section + 1
                 ELSE /\ curated' = curated
                      /\ section' = section
                      /\ writes'.section = writes.section
       /\ ~PageEnd => (pc' = "idle" \/ (curated' = curated /\ section' = section
                                         /\ writes'.section = writes.section))]_vars

\* a run of two pages: the first saved a record and called the curator with its
\* playlist, the second met the record in its cooldown, saved none and wrote
\* nothing
C23_Witness ==
    /\ pc = "done"
    /\ Len(pages) = 2
    /\ Len(consumed) = 2 * items_per_page
    /\ writes.save = 1
    /\ Len(curated) = 1
    /\ writes.section = 1
    /\ \E i \in DOMAIN pages[1] :
           /\ curated[1].playlist_ids_to_add = <<store[pages[1][i].channel_id].playlist_id>>
           /\ store[pages[1][i].channel_id].last_updated_datetime = now

\* ---------------------------------------------------------------- C24
\* the members of the section, before a curator call, whose channel has a
\* watermark within the retention window
FreshMembers(members, records, today) ==
    {p \in Range(members) :
        \E c \in DOMAIN records :
            /\ records[c].playlist_id = p
            /\ _get_latest_videopublishedat(records[c]) # None
            /\ _get_latest_videopublishedat(records[c]) >= today - DEFAULT_UPDATE_DAYS}

WatermarkOf(records, p) ==
    LET c == CHOOSE d \in DOMAIN records : records[d].playlist_id = p
    IN  _get_latest_videopublishedat(records[c])

\* C25: for any member records, equal or absent watermarks included,
\* _update_active_playlists_collection completes and the membership it writes
\* is ordered by non-increasing channel watermark.
C25_OrderedForAnyRecords ==
    nv.done =>
        /\ ~nv.raised
        /\ \A i, j \in DOMAIN nv.result :
               i < j => (\/ WatermarkOf(nv.records, nv.result[j]) = None
                         \/ (/\ WatermarkOf(nv.records, nv.result[i]) # None
                             /\ WatermarkOf(nv.records, nv.result[i])
                                    >= WatermarkOf(nv.records, nv.result[j])))

\* ---------------------------------------------------------------- C28
\* C28: a bulk load (no channel ids) does not raise, whatever the cache
\* directory holds, and loads every record whose file parses.
C28_BulkLoadSkipsCorrupt ==
    (nv.done /\ nv.channel_ids = {}) =>
        /\ ~nv.raised
        /\ nv.result = {c \in DOMAIN nv.files : nv.files[c] = "record"}

\* ---------------------------------------------------------------- C26
\* C26: with explicit channel ids the selection completes, whatever the
\* cached records of those ids are, and the worklist holds exactly the cached
\* records of those ids, by non-increasing watermark.
C26_ExplicitIdsSelectionCompletes ==
    [][(pc = "select" /\ cmd.channel_ids # {}) =>
           /\ pc' = "page"
           /\ {channels_to_check'[i].channel_id : i \in DOMAIN channels_to_check'}
                  = (DOMAIN store) \cap cmd.channel_ids
           /\ Len(channels_to_check') = Cardinality((DOMAIN store) \cap cmd.channel_ids)
           /\ \A i, j \in DOMAIN channels_to_check' :
                  i < j => (\/ channels_to_check'[j].latest = None
                            \/ (/\ channels_to_check'[i].latest # None
                                /\ channels_to_check'[i].latest
                                       >= channels_to_check'[j].latest))]_vars

\* ---------------------------------------------------------------- C27
\* no two cached records have the same watermark, and none has none
DistinctWatermarks ==
    \A c, d \in DOMAIN store :
        /\ _get_latest_videopublishedat(store[c]) # None
        /\ c # d => _get_latest_videopublishedat(store[c])
                        # _get_latest_videopublishedat(store[d])

\* a playlist of the section is not found, or its owner has no cached record
HasStaleReference ==
    \E i \in DOMAIN section :
        \/ section[i] \notin DOMAIN remote
        \/ get_channelid_from_playlist(remote, section[i]) \notin DOMAIN store

\* C27: with a stale playlist reference in the active section, the selection
\* of an update run completes (the reference is skipped) and so does every
\* curator call: the run goes on with its pages.
C27_StaleReferenceSkipped ==
    [][HasStaleReference =>
           /\ (pc = "select" /\ cmd.channel_ids = {} /\ DistinctWatermarks) => pc' = "page"
           /\ (PageEnd /\ updated_playlist_ids # <<>>) => pc' = "page"]_vars

\* ---------------------------------------------------------------- C29
\* C29: no step of an update run (the curator included) or of a create run
\* changes the channel_id, channel_title or playlist_id of a record that
\* exists, in its cache file or in memory: the playlist_id written at
\* creation is the one of every later version of the record.
C29_IdentityFieldsKept ==
    [][/\ \A c \in DOMAIN store :
              /\ c \in DOMAIN store'
              /\ store'[c].channel_id = store[c].channel_id
              /\ store'[c].channel_title = store[c].channel_title
              /\ store'[c].playlist_id = store[c].playlist_id
       /\ \A c \in (DOMAIN data) \cap (DOMAIN data') :
              /\ data'[c].channel_id = data[c].channel_id
              /\ data'[c].channel_title = data[c].channel_title
              /\ data'[c].playlist_id = data[c].playlist_id]_vars

\* channel 4 was saved by an update run and the curator wrote its playlist to
\* the section: its record has the identity it was created with
C29_Witness ==
    /\ pc = "done"
    /\ cmd.command = "update"
    /\ store[4].last_updated_datetime = now
    /\ Len(store[4].videos) = 2
    /\ store[4].channel_id = 4
    /\ store[4].channel_title = InitRecord(4).channel_title
    /\ store[4].playlist_id = InitRecord(4).playlist_id
    /\ store[4].playlist_id \in Range(section)

\* ---------------------------------------------------------------- C30
IsAscending(videos) ==
    \A i, j \in DOMAIN videos :
        i < j => get_publish_date(videos[i]) <= get_publish_date(videos[j])

\* C30: the videos of every insert loop are requested in ascending publish
\* order, and the videos of every record are in non-decreasing publish order,
\* in the cache file and in memory, after any runs, failed inserts included.
C30_VideosSortedByPublishDate ==
    /\ IsAscending(inserted.videos)
    /\ IsAscending(inserted.added)
    /\ \A c \in DOMAIN store : IsAscending(store[c].videos)
    /\ \A c \in DOMAIN data : IsAscending(data[c].videos)

\* one update run saved channel 1 with its two new videos behind the old one,
\* and channel 4 with none, the insert of its new video having failed
C30_Witness ==
    /\ pc = "page"
    /\ fails = 1
    /\ Len(store[1].videos) = 3
    /\ store[1].last_updated_datetime = now
    /\ Len(store[4].videos) = 1
    /\ store[4].last_updated_datetime = now

\* ---------------------------------------------------------------- C31
\* C31: process_channel on an ignored channel, or on a channel that has a
\* record, creates no playlist and writes nothing, and goes on with the next
\* channel; a record appears only together with the playlist created for it,
\* and a playlist only together with its record, so every playlist belongs to
\* exactly one record and no channel has two.
C31_OnePlaylistPerChannel ==
    [][/\ (/\ pc = "create"
           /\ todo # <<>>
           /\ (Head(todo) = IgnoredChannel \/ Head(todo) \in DOMAIN store))
          => (/\ pc' = "create"
              /\ todo' = Tail(todo)
              /\ remote' = remote
              /\ store' = store
              /\ section' = section
              /\ writes' = writes)
       /\ \A c \in (DOMAIN store') \ (DOMAIN store) :
              /\ Len(remote') = Len(remote) + 1
              /\ store'[c].playlist_id = Len(remote')
              /\ (DOMAIN store') \ (DOMAIN store) = {c}
       /\ Len(remote') # Len(remote) => (DOMAIN store') \ (DOMAIN store) # {}
       /\ \A p \in DOMAIN remote' :
              Cardinality({c \in DOMAIN store' : store'[c].playlist_id = p}) = 1]_vars

\* a create run skipped the ignored channel, which uploads and has no record,
\* skipped channel 1, which has a record, and created the playlist and the
\* record of the new channel
C31_Witness ==
    /\ pc = "done"
    /\ cmd.channel_ids = {1, IgnoredChannel, NewChannel}
    /\ get_channel_videos(listed, IgnoredChannel) # <<>>
    /\ IgnoredChannel \notin DOMAIN store
    /\ NewChannel \in DOMAIN store
    /\ Len(remote) = Cardinality(InitChannels) + 1
    /\ writes.save = 1

\* ---------------------------------------------------------------- C32
NoRepeat(s) == \A i, j \in DOMAIN s : s[i] = s[j] => i = j

\* C32: within one run, the playlist of a channel is appended to at most once
\* and its record is saved at most once, however many pages visit the channel.
C32_OnceAppendedPerRun ==
    /\ NoRepeat(writes.appended)
    /\ NoRepeat(writes.saved)
    /\ Len(writes.appended) = writes.append
    /\ Len(writes.saved) = writes.save

\* a run of two pages visited a channel twice and appended to it and saved it
\* once: the second visit met its cooldown
C32_Witness ==
    /\ pc = "done"
    /\ Len(pages) = 2
    /\ \E c \in Range(writes.appended) :
           /\ c \in Range(writes.saved)
           /\ Cardinality({i \in DOMAIN consumed : consumed[i] = c}) = 2
           /\ fetched[c] = 1

\* ---------------------------------------------------------------- C33
\* the listed videos of channel c that its record lacks while it holds a
\* video published later
PassedOver(c) ==
    {a \in listed :
        /\ a.channelId = c
        /\ a.videoId \notin VideoIds(store[c].videos)
        /\ \E i \in DOMAIN store[c].videos :
               get_publish_date(store[c].videos[i]) > get_publish_date(a)}

\* C33: a video whose insert failed while a later-published video of the same
\* channel was recorded is, from then on, never among the new videos: no
\* later step requests its insert or adds it to the record.
C33_FailedVideoNeverRetried ==
    [][\A c \in DOMAIN store : \A a \in PassedOver(c) :
           /\ a.videoId \notin VideoIds(store'[c].videos)
           /\ a.videoId \notin VideoIds(pending')
           /\ inserted' # inserted => a.videoId \notin Range(inserted'.requests)]_vars

\* the insert of video 12 failed in the first run while 13 was recorded; the
\* second run, past the cooldown, fetched channel 1 and appended nothing
C33_Witness ==
    /\ runs = 2
    /\ pc = "done"
    /\ fails = 1
    /\ store[4] = InitRecord(4)
    /\ Catalog(4) \cap listed = InitListed(4)
    /\ Len(store[1].videos) = 2
    /\ store[1].videos[2].videoId = 13
    /\ \E a \in listed : a.videoId = 12
    /\ fetched[1] = 1
    /\ 1 \notin Range(writes.appended)

\* ---------------------------------------------------------------- C34
VideoIdSeq(videos) == [i \in DOMAIN videos |-> videos[i].videoId]

\* C34: over any runs, a run killed between the append and the save included,
\* no playlist holds a video twice, and outside an update in progress or
\* left unfinished by a kill, the playlist of a channel holds exactly the
\* videos of its record.
C34_PlaylistEqualsRecord ==
    \A c \in DOMAIN store :
        /\ NoRepeat(VideoIdSeq(remote[store[c].playlist_id]))
        /\ (pc # "save" /\ killed.channel_id # c) =>
               remote[store[c].playlist_id] = store[c].videos

====
